---- MODULE Spec2Model ----
(***************************************************************************)
(* OpenAlexPublicationNetwork: the raw request executor with its profiler, *)
(* the two pagination iterators with the strategy selection of             *)
(* getEntities, the assembly of the citation graph and the CSV codec.      *)
(*                                                                         *)
(* The program is single threaded: one top-level operation runs at a time. *)
(* Each operation has a specification of its own (SpecRequest,             *)
(* SpecRetrieval, SpecGraph) over the variables of that operation; the     *)
(* variables of the other operations stay at their initial values.  The    *)
(* bounded breadth-first traversal of the citation relation is specified   *)
(* by SpecTraversal.  Spec is all of them together.                        *)
(***************************************************************************)
EXTENDS Integers, Sequences, FiniteSets, TLC

(***************************************************************************)
(* Bounds of the model.                                                    *)
(***************************************************************************)
MaxRetries == 3
MaxBackoff == 2
MaxCount == 3
MaxPerPage == 2
MaxRequests == 3
MaxIterations == 2
MaxRecords == 2
MaxWorkId == 2
MaxDepth == 2
MaxNodes == 3

(***************************************************************************)
(* State.  Request executor and profiler (utils/utils.py):                 *)
(***************************************************************************)
VARIABLES
    reqPc,          \* "idle" | "loop" | "returned": position in _makeOARawRequest
    retries,        \* argument retries
    backoff,        \* local backoff, seconds
    backoffArg,     \* the value of backoff the call was entered with
    rateInterval,   \* argument rateInterval, seconds
    attempt,        \* loop variable of "for attempt in range(1, retries + 1)"
    gets,           \* sequence of the outcomes of the GETs issued by this call
    sleeps,         \* sequence of the time.sleep calls of this call
    result,         \* "pending" | "None" | "body"
    apiTime,        \* profiler._total_api_time
    apiCalls,       \* profiler._api_call_count
    errorCount,     \* profiler._error_count, 0 for a key that is not in the dict
    callPc          \* "none" | "returned" | "raised" | "single": how the
                    \* caller of _makeOARawRequest (makeOAAPICall or
                    \* makeOASingleWorksCall) has ended

reqVars == <<reqPc, retries, backoff, backoffArg, rateInterval, attempt, gets, sleeps,
             result, apiTime, apiCalls, errorCount, callPc>>

\* getEntities (crawler.py) and the iterators (utils/iterators.py):
VARIABLES
    itPc,                \* "none" | "ready" | "running" | "done" | "raised"
    strategy,            \* "none" | "offset" | "cursor": class of the iterator
    metaCount,           \* meta.count of the preliminary response
    maxEntities,         \* argument maxEntities of getEntities
    viaGetEntities,      \* the iterator was returned by getEntities
    totalEntries,        \* self._totalEntries
    totalEntriesPerPage, \* self._totalEntriesPerPage
    totalPages,          \* self._totalPages
    processedEntries,    \* self._processedEntries
    cursor,              \* self._parameters["cursor"]
    page,                \* loop variable of _pageIterator.__iter__
    requests,            \* the requests of the current iteration, with answers
    yielded,             \* the records yielded by the current iteration
    iterations           \* number of iterations started on the object

itVars == <<itPc, strategy, metaCount, maxEntities, viaGetEntities,
            totalEntries, totalEntriesPerPage, totalPages, processedEntries,
            cursor, page, requests, yielded, iterations>>

\* createCitationGraph (network.py) and the CSV codec (utils/utils.py):
VARIABLES
    gPc,             \* "idle" | "consuming" | "raised" | "built" | "saved"
                     \* | "loaded" | "loadRaised" | "fileLoaded"
                     \* | "fileLoadRaised"
    consumed,        \* the records taken from the stream so far
    nodeAttributes,  \* createCitationGraph: attribute name -> list of values
    nodeReferences,  \* createCitationGraph: per node, the referenced ids
    oaIntID2Index,   \* createCitationGraph: id -> node index
    index2oaIntID,   \* createCitationGraph: node index -> id
    graph,           \* the ig.Graph createCitationGraph returns
    csvFile,         \* the file save_citation_graph_to_csv writes
    decoded          \* the ig.Graph create_citation_graph_from_csv returns

graphVars == <<gPc, consumed, nodeAttributes, nodeReferences, oaIntID2Index,
               index2oaIntID, graph, csvFile, decoded>>

\* the bounded BFS traversal (TraversalState):
VARIABLES
    bfsPc,        \* "idle" | "running" | "done"
    cites,        \* the citation relation: identifier -> list of cited ones
    maxDepth,     \* argument maxDepth
    maxNodes,     \* argument maxNodes
    queue,        \* FIFO queue of [id, depth]
    visited,      \* the identifiers already enqueued
    processedNodes, \* the processedNodes-node counter
    enqueued,     \* every [id, depth] put on the queue so far, in order
    fetched,      \* every [id, depth] a single-work fetch was issued for
    bfsYielded    \* the records yielded, as [id, depth]

bfsVars == <<bfsPc, cites, maxDepth, maxNodes, queue, visited, processedNodes,
             enqueued, fetched, bfsYielded>>

vars == <<reqVars, itVars, graphVars, bfsVars>>

\* what an operation on one part leaves alone
notRequest == <<itVars, graphVars, bfsVars>>
notRetrieval == <<reqVars, graphVars, bfsVars>>
notGraph == <<reqVars, itVars, bfsVars>>
notTraversal == <<reqVars, itVars, graphVars>>

(***************************************************************************)
(* Small helpers.                                                          *)
(***************************************************************************)
Min(a, b) == IF a <= b THEN a ELSE b

Range(s) == {s[i] : i \in DOMAIN s}

RECURSIVE Pow2(_)
Pow2(n) == IF n <= 0 THEN 1 ELSE 2 * Pow2(n - 1)

\* the elements of s of kind k, in order
SelectKind(s, k) == SelectSeq(s, LAMBDA e : e.kind = k)

(***************************************************************************)
(* Part 1.  OAAPI._makeOARawRequest and _APIProfiler (utils/utils.py).     *)
(*                                                                         *)
(* Time is counted in whole seconds; a GET itself takes no time, so the    *)
(* elapsed time of a call is the time it slept.                            *)
(***************************************************************************)

\* HTTP status codes the server may answer with.
Statuses == {200, 404, 429, 500, 503}

\* One GET: a transport exception, or a response with a status whose body
\* decodes as JSON or not.
Outcomes ==
    {[exc |-> TRUE, status |-> 0, decodes |-> FALSE]}
    \cup {[exc |-> FALSE, status |-> s, decodes |-> d] :
              s \in Statuses, d \in BOOLEAN}

\* The keys of profiler._error_count.
ErrorKinds ==
    {ToString(s) : s \in Statuses}
    \cup {"JSONDecodeError", "RequestException", "NA_Meta_in_response",
          "Invalid"}

\* _APIProfiler.track(error=kind)
TrackError(counts, kind) == [counts EXCEPT ![kind] = @ + 1]

\* the error kind recorded for an outcome that is not a decodable 200
ErrorKindOf(o) ==
    IF o.exc THEN "RequestException"
    ELSE IF o.status = 200 THEN "JSONDecodeError"
    ELSE ToString(o.status)

\* the branches of the status dispatch that keep the loop going
\* (variant: every status from 400 on is retried)
IsRetryableAll4xx(o) == o.exc \/ o.status >= 400
IsRetryable(o) == o.exc \/ o.status = 429 \/ o.status >= 500

\* backoff after the outcome: "backoff *= 2" in the 429 branch only
\* (variant: the backoff is never doubled)
NextBackoffConstant(o, b) == b
\* (variant: the backoff is doubled after every retryable outcome)
NextBackoffAlways(o, b) == b * 2
NextBackoff(o, b) == IF ~o.exc /\ o.status = 429 THEN b * 2 ELSE b

\* "for attempt in range(1, retries + 1)": is there an iteration for a?
\* (variant: range(1, retries + 2))
HasAttemptOneMore(a, r) == a <= r + 1
HasAttempt(a, r) == a <= r

\* "if rateInterval > 0.0: time.sleep(rateInterval)", ahead of the loop
\* (variant: no rateInterval sleep)
RateSleepSkipped(ri) == <<>>
RateSleepOnCall(ri) ==
    IF ri > 0 THEN <<[kind |-> "rate", secs |-> ri]>> ELSE <<>>

InitRequest ==
    /\ reqPc = "idle"
    /\ retries = 0
    /\ backoff = 0
    /\ backoffArg = 0
    /\ rateInterval = 0
    /\ attempt = 0
    /\ gets = <<>>
    /\ sleeps = <<>>
    /\ result = "pending"
    /\ apiTime = 0
    /\ apiCalls = 0
    /\ errorCount = [k \in ErrorKinds |-> 0]
    /\ callPc = "none"

\* Entry of _makeOARawRequest up to the first loop test.
RawRequestCall(r, b, ri) ==
    /\ UNCHANGED notRequest
    /\ reqPc = "idle"
    /\ retries' = r
    /\ backoff' = b
    /\ backoffArg' = b
    /\ rateInterval' = ri
    /\ attempt' = 1
    /\ gets' = <<>>
    /\ sleeps' = RateSleepOnCall(ri)
    /\ IF HasAttempt(1, r)
         THEN reqPc' = "loop" /\ result' = "pending"
         ELSE reqPc' = "returned" /\ result' = "None"
    /\ UNCHANGED <<apiTime, apiCalls, errorCount, callPc>>

\* seconds slept for backoff so far in this call: end_time - start_time
Elapsed == LET bs == SelectKind(sleeps, "backoff")
               sum[i \in 0..Len(bs)] ==
                   IF i = 0 THEN 0 ELSE sum[i - 1] + bs[i].secs
           IN sum[Len(bs)]

\* One iteration of the loop with outcome o, up to the next loop test.
RawRequestAttempt(o) ==
    /\ UNCHANGED notRequest
    /\ reqPc = "loop"
    /\ HasAttempt(attempt, retries)
    /\ gets' = Append(gets, o)
    /\ UNCHANGED <<retries, rateInterval, backoffArg, callPc>>
    /\ IF ~o.exc /\ o.status = 200
         THEN \* track(start_time, end_time); return response.json()
              /\ apiTime' = apiTime + Elapsed
              /\ apiCalls' = apiCalls + 1
              /\ errorCount' = IF o.decodes THEN errorCount
                               ELSE TrackError(errorCount, ErrorKindOf(o))
              /\ result' = IF o.decodes THEN "body" ELSE "None"
              /\ reqPc' = "returned"
              /\ UNCHANGED <<backoff, attempt, sleeps>>
         ELSE IF IsRetryable(o)
         THEN \* track(error); time.sleep(backoff); next iteration
              /\ errorCount' = TrackError(errorCount, ErrorKindOf(o))
              /\ sleeps' = Append(sleeps, [kind |-> "backoff", secs |-> backoff])
              /\ backoff' = NextBackoff(o, backoff)
              /\ attempt' = attempt + 1
              /\ IF HasAttempt(attempt + 1, retries)
                   THEN reqPc' = "loop" /\ result' = "pending"
                   ELSE reqPc' = "returned" /\ result' = "None"
              /\ UNCHANGED <<apiTime, apiCalls>>
         ELSE \* track(error); return None
              /\ errorCount' = TrackError(errorCount, ErrorKindOf(o))
              /\ result' = "None"
              /\ reqPc' = "returned"
              /\ UNCHANGED <<backoff, attempt, sleeps, apiTime, apiCalls>>

NextRequest ==
    \/ \E r \in 1..MaxRetries, b \in 1..MaxBackoff, ri \in 0..1 :
           RawRequestCall(r, b, ri)
    \/ \E o \in Outcomes : RawRequestAttempt(o)


(***************************************************************************)
(* Part 2.  OAApi.getEntities (crawler.py) and the two iterators           *)
(* _pageIterator and _cursorIterator (utils/iterators.py).                 *)
(*                                                                         *)
(* A record of the result stream is named <<r, i>>: the i-th entry of the  *)
(* "results" of the r-th response (for the offset strategy r is the page   *)
(* number).  One step of an iteration is one request together with the     *)
(* consumption of its response.                                            *)
(***************************************************************************)

\* "if totalEntries <= 10000" of getEntities
OffsetCeiling == 10000

\* meta.count values of the preliminary response
Counts == 0..MaxCount \cup {OffsetCeiling, OffsetCeiling + 1}
\* values of the argument maxEntities (negative: no cap)
MaxEntitiesValues == {-1} \cup 0..MaxCount \cup {OffsetCeiling}
\* meta.per_page values
PerPages == 1..MaxPerPage
\* meta.next_cursor of the k-th response of an iteration: a token of that
\* response, an empty one, or "missing" when the key is not there
NextCursors(k) == {"missing", "", "c" \o ToString(k)}

\* math.ceil(a / b) for a >= 0, b >= 1
CeilDiv(a, b) == (a + b - 1) \div b

\* "if totalEntries > maxEntities and maxEntities >= 0: totalEntries = maxEntities"
CapEntries(count, m) == IF count > m /\ m >= 0 THEN m ELSE count

\* "if totalEntries <= 10000: _pageIterator ... else: _cursorIterator"
\* (variant: totalEntries < 10000)
SelectStrategyStrict(total) ==
    IF total < OffsetCeiling THEN "offset" ELSE "cursor"
SelectStrategy(total) ==
    IF total <= OffsetCeiling THEN "offset" ELSE "cursor"

\* _pageIterator: "if self._processedEntries < self._totalEntries" admits an
\* entry; the number of entries of a response of n that are yielded
\* (variant: self._processedEntries <= self._totalEntries)
PageYieldCountInclusive(n, processed, total) ==
    IF total + 1 - processed <= 0 THEN 0 ELSE Min(n, total + 1 - processed)
PageYieldCount(n, processed, total) ==
    IF total - processed <= 0 THEN 0 ELSE Min(n, total - processed)

\* _cursorIterator: an entry is yielded unless counting it makes
\* self._processedEntries exceed self._totalEntries
CursorYieldCount(n, processed, total) ==
    IF total - processed <= 0 THEN 0 ELSE Min(n, total - processed)

\* the cursor loop goes on only with a non-empty next_cursor
\* (variant: an empty next_cursor is followed)
HasNextCursorKeyOnly(nc) == nc # "missing"
HasNextCursor(nc) == nc # "missing" /\ nc # ""

\* What makeOAAPICall gets from _makeOARawRequest: None or an empty body
\* (absent), or a body with or without the keys "meta" and "error"; the value
\* of an "error" key is "Invalid".
ResponseShapes ==
    {[absent |-> TRUE, meta |-> FALSE, error |-> FALSE]}
    \cup {[absent |-> FALSE, meta |-> m, error |-> e] : m, e \in BOOLEAN}

\* makeOAAPICall: "if not response: raise" and
\* "if 'meta' not in response or 'error' in response: ... raise"
\* (variant: only an absent response raises)
makeOAAPICallRaisesAbsentOnly(resp) == resp.absent
makeOAAPICallRaises(resp) == resp.absent \/ ~resp.meta \/ resp.error

\* makeOAAPICall: the profiler.track(error=...) calls ahead of the raise
\* (variant: the missing "meta" of an absent response is tracked as well)
TrackResponseErrorsAbsentToo(counts, resp) ==
    LET c1 == IF ~resp.meta
                THEN TrackError(counts, "NA_Meta_in_response") ELSE counts
    IN IF ~resp.absent /\ resp.error THEN TrackError(c1, "Invalid") ELSE c1
TrackResponseErrors(counts, resp) ==
    LET c1 == IF ~resp.absent /\ ~resp.meta
                THEN TrackError(counts, "NA_Meta_in_response") ELSE counts
    IN IF ~resp.absent /\ resp.error THEN TrackError(c1, "Invalid") ELSE c1

\* makeOAAPICall after its call of _makeOARawRequest has returned: the
\* response is None when the executor returned None, else a body of one of
\* the shapes (an empty body counts as absent)
MakeOAAPICallCheck(resp) ==
    /\ UNCHANGED notRequest
    /\ reqPc = "returned"
    /\ callPc = "none"
    /\ result = "None" => resp.absent
    /\ IF makeOAAPICallRaises(resp)
         THEN /\ errorCount' = TrackResponseErrors(errorCount, resp)
              /\ callPc' = "raised"
         ELSE /\ errorCount' = errorCount
              /\ callPc' = "returned"
    /\ UNCHANGED <<reqPc, retries, backoff, backoffArg, rateInterval, attempt,
                   gets, sleeps, result, apiTime, apiCalls>>

\* makeOASingleWorksCall: "return self._makeOARawRequest(requestURL)"
MakeOASingleWorksCallReturn ==
    /\ UNCHANGED notRequest
    /\ reqPc = "returned"
    /\ callPc = "none"
    /\ callPc' = "single"
    /\ UNCHANGED <<reqPc, retries, backoff, backoffArg, rateInterval, attempt,
                   gets, sleeps, result, apiTime, apiCalls, errorCount>>

\* the methods of OAAPI: the executor and its two callers
NextOAAPI ==
    \/ NextRequest
    \/ \E resp \in ResponseShapes : MakeOAAPICallCheck(resp)
    \/ MakeOASingleWorksCallReturn

\* the entries <<r, 1>> .. <<r, k>> of response r
Entries(r, k) == [i \in 1..k |-> <<r, i>>]

InitRetrieval ==
    /\ itPc = "none"
    /\ strategy = "none"
    /\ metaCount = 0
    /\ maxEntities = 0
    /\ viaGetEntities = FALSE
    /\ totalEntries = 0
    /\ totalEntriesPerPage = 0
    /\ totalPages = 0
    /\ processedEntries = 0
    /\ cursor = "unset"
    /\ page = 0
    /\ requests = <<>>
    /\ yielded = <<>>
    /\ iterations = 0

\* getEntities with a well-formed preliminary response (count, perPage)
GetEntities(count, perPage, m) ==
    /\ UNCHANGED notRetrieval
    /\ itPc = "none"
    /\ metaCount' = count
    /\ maxEntities' = m
    /\ viaGetEntities' = TRUE
    /\ totalEntries' = CapEntries(count, m)
    /\ totalEntriesPerPage' = perPage
    /\ totalPages' = CeilDiv(CapEntries(count, m), perPage)
    /\ strategy' = SelectStrategy(CapEntries(count, m))
    \* _cursorIterator.__init__ sets the sentinel cursor and the counter
    /\ cursor' = IF SelectStrategy(CapEntries(count, m)) = "cursor"
                   THEN "*" ELSE "unset"
    /\ processedEntries' = 0
    /\ itPc' = "ready"
    /\ UNCHANGED <<page, requests, yielded, iterations>>

\* getEntities whose preliminary makeOAAPICall raises: no iterator
GetEntitiesRaises ==
    /\ UNCHANGED notRetrieval
    /\ itPc = "none"
    /\ itPc' = "raised"
    /\ UNCHANGED <<strategy, metaCount, maxEntities, viaGetEntities,
                   totalEntries, totalEntriesPerPage, totalPages,
                   processedEntries, cursor, page, requests, yielded,
                   iterations>>

\* _cursorIterator(api, entityType, parameters, total, perPage, pages, ...)
\* built by a caller of its own
NewCursorIterator(total, perPage) ==
    /\ UNCHANGED notRetrieval
    /\ itPc = "none"
    /\ strategy' = "cursor"
    /\ totalEntries' = total
    /\ totalEntriesPerPage' = perPage
    /\ totalPages' = CeilDiv(total, perPage)
    /\ cursor' = "*"
    /\ processedEntries' = 0
    /\ itPc' = "ready"
    /\ UNCHANGED <<metaCount, maxEntities, viaGetEntities, page, requests,
                   yielded, iterations>>

\* "for page in range(1, self._totalPages + 1)": is there an iteration for p?
\* (variant: range(1, self._totalPages + 2))
HasPageOneMore(p, pages) == p <= pages + 1
HasPage(p, pages) == p <= pages

\* _pageIterator.__iter__ up to its first request
PageIterStart ==
    /\ UNCHANGED notRetrieval
    /\ strategy = "offset"
    /\ itPc \in {"ready", "done"}
    /\ iterations < MaxIterations
    /\ iterations' = iterations + 1
    /\ processedEntries' = 0
    /\ page' = 1
    /\ requests' = <<>>
    /\ yielded' = <<>>
    /\ itPc' = IF HasPage(1, totalPages) THEN "running" ELSE "done"
    /\ UNCHANGED <<strategy, metaCount, maxEntities, viaGetEntities,
                   totalEntries, totalEntriesPerPage, totalPages, cursor>>

\* the page of `perPage` entries numbered p of a catalog of `count` works
CatalogPageSize(count, perPage, p) ==
    IF count - (p - 1) * perPage <= 0 THEN 0
    ELSE Min(perPage, count - (p - 1) * perPage)

\* _pageIterator.__iter__: one page request answered with n results
PageIterStep(n) ==
    /\ UNCHANGED notRetrieval
    /\ strategy = "offset"
    /\ itPc = "running"
    /\ Len(requests) < MaxRequests
    /\ \E resp \in ResponseShapes :
        /\ ~makeOAAPICallRaises(resp)
        /\ LET k == PageYieldCount(n, processedEntries, totalEntries)
               shouldBreak == k < n
           IN
          /\ requests' = Append(requests,
                 [page |-> page, cursor |-> "unset",
                  per_page |-> totalEntriesPerPage, resp |-> resp,
                  ok |-> TRUE, results |-> n, next_cursor |-> "missing",
                  yieldedBefore |-> Len(yielded)])
          /\ yielded' = yielded \o Entries(page, k)
          /\ processedEntries' = processedEntries + k
          /\ IF shouldBreak \/ ~HasPage(page + 1, totalPages)
               THEN itPc' = "done" /\ page' = page
               ELSE itPc' = "running" /\ page' = page + 1
    /\ UNCHANGED <<strategy, metaCount, maxEntities, viaGetEntities,
                   totalEntries, totalEntriesPerPage, totalPages, cursor,
                   iterations>>

\* _cursorIterator.__iter__ up to its first request
CursorIterStart ==
    /\ UNCHANGED notRetrieval
    /\ strategy = "cursor"
    /\ itPc \in {"ready", "done"}
    /\ iterations < MaxIterations
    /\ iterations' = iterations + 1
    /\ requests' = <<>>
    /\ yielded' = <<>>
    /\ itPc' = "running"
    /\ UNCHANGED <<strategy, metaCount, maxEntities, viaGetEntities,
                   totalEntries, totalEntriesPerPage, totalPages,
                   processedEntries, cursor, page>>

\* _cursorIterator.__iter__: one request answered with n results and nc
CursorIterStep(n, nc) ==
    /\ UNCHANGED notRetrieval
    /\ strategy = "cursor"
    /\ itPc = "running"
    /\ Len(requests) < MaxRequests
    /\ \E resp \in ResponseShapes :
        /\ ~makeOAAPICallRaises(resp)
        /\ LET k == CursorYieldCount(n, processedEntries, totalEntries)
               shouldBreak == k < n
           IN
          /\ requests' = Append(requests,
                 [page |-> 0, cursor |-> cursor,
                  per_page |-> totalEntriesPerPage, resp |-> resp,
                  ok |-> TRUE, results |-> n, next_cursor |-> nc,
                  yieldedBefore |-> Len(yielded)])
          /\ yielded' = yielded \o Entries(Len(requests) + 1, k)
          \* the entry that trips the limit has been counted as well
          /\ processedEntries' =
                 processedEntries + (IF shouldBreak THEN k + 1 ELSE n)
          /\ IF shouldBreak \/ ~HasNextCursor(nc)
               THEN itPc' = "done" /\ cursor' = cursor
               ELSE itPc' = "running" /\ cursor' = nc
    /\ UNCHANGED <<strategy, metaCount, maxEntities, viaGetEntities,
                   totalEntries, totalEntriesPerPage, totalPages, page,
                   iterations>>

\* a request of the iteration for which makeOAAPICall raises: the exception
\* leaves __iter__, which ends the generator; the caller gives the retrieval
\* up
IterStepRaises ==
    /\ UNCHANGED <<graphVars, bfsVars>>
    /\ UNCHANGED <<reqPc, retries, backoff, backoffArg, rateInterval, attempt,
                   gets, sleeps, result, apiTime, apiCalls, callPc>>
    /\ strategy \in {"offset", "cursor"}
    /\ itPc = "running"
    /\ Len(requests) < MaxRequests
    /\ \E resp \in ResponseShapes :
        /\ makeOAAPICallRaises(resp)
        /\ errorCount' = TrackResponseErrors(errorCount, resp)
        /\ requests' = Append(requests,
               [page |-> IF strategy = "offset" THEN page ELSE 0,
                cursor |-> cursor, per_page |-> totalEntriesPerPage,
                resp |-> resp, ok |-> FALSE, results |-> 0,
                next_cursor |-> "missing", yieldedBefore |-> Len(yielded)])
    /\ itPc' = "raised"
    /\ UNCHANGED <<strategy, metaCount, maxEntities, viaGetEntities,
                   totalEntries, totalEntriesPerPage, totalPages,
                   processedEntries, cursor, page, yielded, iterations>>

NextRetrieval ==
    \/ \E count \in Counts, perPage \in PerPages, m \in MaxEntitiesValues :
           GetEntities(count, perPage, m)
    \/ GetEntitiesRaises
    \/ \E total \in 0..MaxCount, perPage \in PerPages :
           NewCursorIterator(total, perPage)
    \/ PageIterStart
    \/ \E n \in 0..totalEntriesPerPage : PageIterStep(n)
    \/ CursorIterStart
    \/ \E n \in 0..totalEntriesPerPage, nc \in NextCursors(Len(requests) + 1) :
           CursorIterStep(n, nc)
    \/ IterStepRaises

(***************************************************************************)
(* Part 3.  createCitationGraph (network.py) and the CSV codec             *)
(* save_citation_graph_to_csv / create_citation_graph_from_csv             *)
(* (utils/utils.py).                                                       *)
(*                                                                         *)
(* A Python value is a record of its type and its str() form, so that      *)
(* str(), int() and the JSON conversions are computed on what they read    *)
(* and write.  A dict is a function on its keys.  Node indices count from  *)
(* 0 as in the program; the lists holding them are TLA+ sequences, so node *)
(* i is at position i + 1.                                                 *)
(***************************************************************************)
PyStr(text) == [t |-> "str", v |-> text]
PyInt(k) == [t |-> "int", v |-> ToString(k)]
PyTrue == [t |-> "bool", v |-> "True"]
PyNone == [t |-> "none", v |-> "None"]
PyListOfOne == [t |-> "list", v |-> "[1]"]

EmptyDict == <<>>
Merge(f, g) ==
    [k \in DOMAIN f \cup DOMAIN g |-> IF k \in DOMAIN g THEN g[k] ELSE f[k]]

\* the identifiers of the works of a stream, and one no work of it carries
WorkIds == 1..MaxWorkId
UnseenId == MaxWorkId + 1

OpenAlexId(k) == "https://openalex.org/W" \o ToString(k)

\* int(openAlexId.split("/")[-1][1:])
getIntegerIDFromOpenAlex(openAlexId) ==
    CHOOSE k \in 1..UnseenId : OpenAlexId(k) = openAlexId

\* the default of the parameter attributes_to_keep
AttributesToKeep ==
    {"id", "doi", "title", "publication_year", "publication_date", "language",
     "is_oa", "authorships", "primary_topic", "abstract_inverted_index"}

\* the order in which the attributes of a graph are listed
AttributeOrder ==
    <<"id", "doi", "title", "publication_year", "publication_date",
      "language", "is_oa", "authorships", "primary_topic",
      "abstract_inverted_index">>

\* values of work["referenced_works"] in the streams of the model
RefLists ==
    {<<>>, <<OpenAlexId(2)>>, <<OpenAlexId(UnseenId)>>,
     <<OpenAlexId(2), OpenAlexId(UnseenId)>>}

\* the attributes a work carries besides "id" and "referenced_works"
AttrMaps ==
    {EmptyDict,
     [title |-> PyStr("A"), publication_year |-> PyInt(2020),
      cited_by_count |-> PyInt(5)],
     [title |-> PyNone, is_oa |-> PyTrue, authorships |-> PyListOfOne]}

\* the works a stream may deliver; one without "referenced_works" among them
Works ==
    {Merge(Merge([id |-> PyStr(OpenAlexId(k))], r), a) :
        k \in WorkIds,
        r \in {[referenced_works |-> l] : l \in RefLists} \cup {EmptyDict},
        a \in AttrMaps}

\* json.dumps(v) of a value that is no int, float or str
JsonDumps(v) ==
    CASE v.t = "none" -> "null"
      [] v.t = "list" -> v.v
      [] OTHER -> v.v

\* processPublicationAttributes(attributes, attributes_to_keep); bool is a
\* subclass of int
processPublicationAttributes(work, keep) ==
    [k \in DOMAIN work \cap keep |->
        IF work[k].t \in {"int", "bool", "float", "str"}
          THEN work[k]
          ELSE PyStr(JsonDumps(work[k]))]

\* "for k, v in attributes.items(): nodeAttributes[k].append(v)"
AppendAttributes(lists, attributes) ==
    [k \in DOMAIN lists \cup DOMAIN attributes |->
        (IF k \in DOMAIN lists THEN lists[k] ELSE <<>>)
        \o (IF k \in DOMAIN attributes THEN <<attributes[k]>> ELSE <<>>)]

\* "oaIntID2Index[oaIntegerID] = len(index2oaIntID)"
\* (variant: indices counted from 1)
NextIndexOneBased(index2id) == Len(index2id) + 1
\* (variant: the index of the work before)
NextIndexBehind(index2id) == IF Len(index2id) = 0 THEN 0 ELSE Len(index2id) - 1
NextIndex(index2id) == Len(index2id)

\* "oaIntID2Index[oaIntegerID] = ...": a dict assignment, which replaces the
\* entry of a key that is already there
\* (variant: the entry of a key that is already there is kept)
SetIndexIfNew(id2index, id, idx) ==
    IF id \in DOMAIN id2index THEN id2index
    ELSE Merge(id2index, [k \in {id} |-> idx])
SetIndex(id2index, id, idx) == Merge(id2index, [k \in {id} |-> idx])

\* the edges of one node: "if reference in oaIntID2Index:
\* citationEdges.append((pub_idx, oaIntID2Index[reference]))"
RECURSIVE EdgesOf(_, _, _)
EdgesOf(pub_idx, references, id2index) ==
    IF references = <<>> THEN <<>>
    ELSE (IF Head(references) \in DOMAIN id2index
            THEN <<<<pub_idx, id2index[Head(references)]>>>>
            ELSE <<>>)
         \o EdgesOf(pub_idx, Tail(references), id2index)

\* "for pub_idx, references in enumerate(nodeReferences)", from position p
RECURSIVE CitationEdges(_, _, _)
CitationEdges(p, references, id2index) ==
    IF p > Len(references) THEN <<>>
    ELSE EdgesOf(p - 1, references[p], id2index)
         \o CitationEdges(p + 1, references, id2index)

SetMax(S) == CHOOSE x \in S : \A y \in S : y <= x

\* ig.Graph(n=n, edges=edges, directed=True, vertex_attrs=attrs): igraph
\* creates the vertices an edge names beyond n, and fills an attribute from a
\* list of another length by going round the list
IgGraph(n, edges, attrs) ==
    LET ends == {edges[i][1] : i \in DOMAIN edges}
                    \cup {edges[i][2] : i \in DOMAIN edges}
        count == IF ends = {} \/ SetMax(ends) < n THEN n ELSE SetMax(ends) + 1
    IN [n |-> count,
        edges |-> edges,
        attrs |-> [k \in DOMAIN attrs |->
                      [i \in 1..count |->
                          attrs[k][((i - 1) % Len(attrs[k])) + 1]]]]

NoGraph == [n |-> 0, edges |-> <<>>, attrs |-> EmptyDict]
NoFile == [header |-> <<>>, rows |-> <<>>]

InitGraph ==
    /\ gPc = "idle"
    /\ consumed = <<>>
    /\ nodeAttributes = EmptyDict
    /\ nodeReferences = <<>>
    /\ oaIntID2Index = EmptyDict
    /\ index2oaIntID = <<>>
    /\ graph = NoGraph
    /\ csvFile = NoFile
    /\ decoded = NoGraph

\* createCitationGraph: one pass of "for work in entities"
ConsumeWork(work) ==
    /\ UNCHANGED notGraph
    /\ gPc \in {"idle", "consuming"}
    /\ Len(consumed) < MaxRecords
    /\ consumed' = Append(consumed, work)
    /\ LET oaIntegerID == getIntegerIDFromOpenAlex(work["id"].v)
           attributes == processPublicationAttributes(work, AttributesToKeep)
       IN /\ oaIntID2Index' =
                 SetIndex(oaIntID2Index, oaIntegerID, NextIndex(index2oaIntID))
          /\ index2oaIntID' = Append(index2oaIntID, oaIntegerID)
          /\ IF "referenced_works" \in DOMAIN work
               THEN /\ nodeReferences' =
                           Append(nodeReferences,
                                  [i \in DOMAIN work["referenced_works"] |->
                                      getIntegerIDFromOpenAlex(
                                          work["referenced_works"][i])])
                    /\ nodeAttributes' =
                           AppendAttributes(nodeAttributes, attributes)
                    /\ gPc' = "consuming"
               ELSE \* work["referenced_works"] raises KeyError
                    /\ gPc' = "raised"
                    /\ UNCHANGED <<nodeReferences, nodeAttributes>>
    /\ UNCHANGED <<graph, csvFile, decoded>>

\* createCitationGraph: the stream has ended; second pass and ig.Graph
BuildGraph ==
    /\ UNCHANGED notGraph
    /\ gPc \in {"idle", "consuming"}
    /\ graph' = IgGraph(Len(index2oaIntID),
                        CitationEdges(1, nodeReferences, oaIntID2Index),
                        nodeAttributes)
    /\ gPc' = "built"
    /\ UNCHANGED <<consumed, nodeAttributes, nodeReferences, oaIntID2Index,
                   index2oaIntID, csvFile, decoded>>

\* the integers whose decimal form occurs in a file of the model
IntValues == 0..(MaxRecords + 1) \cup {5, 2020}
IntTexts == {ToString(k) : k \in IntValues}

\* int(text) raises ValueError unless text is a decimal number
IsIntText(text) == text \in IntTexts

\* json.loads(text): the texts it accepts here, and their values
IsJsonText(text) == text \in {"null", "true", "[1]"} \cup IntTexts
JsonLoads(text) ==
    CASE text = "null" -> PyNone
      [] text = "true" -> PyTrue
      [] text = "[1]" -> PyListOfOne
      [] OTHER -> [t |-> "int", v |-> text]

\* the columns create_citation_graph_from_csv converts back
IntColumns == {"publication_year"}
JsonColumns == {"authorships", "primary_topic", "abstract_inverted_index"}

\* the cell csv.writer writes for an attribute value: "" for None, else str(v)
CsvCell(v) == IF v.t = "none" THEN "" ELSE v.v

\* v.successors(): the heads of the edges leaving node v
Successors(g, v) ==
    LET out == SelectSeq(g.edges, LAMBDA e : e[1] = v)
    IN [i \in DOMAIN out |-> out[i][2]]

\* save_citation_graph_to_csv: the header and one row per vertex; a row is
\* the dict csv.DictReader makes of it, and the "references" cell is held as
\* the list of the numbers that ":" joins ("" for the empty list)
Encode(g) ==
    LET titles == SelectSeq(AttributeOrder, LAMBDA k : k \in DOMAIN g.attrs)
    IN [header |-> <<"pub", "references">> \o titles,
        rows |-> [i \in 1..g.n |->
            Merge([pub |-> ToString(i - 1),
                   references |-> [j \in DOMAIN Successors(g, i - 1) |->
                                      ToString(Successors(g, i - 1)[j])]],
                  [k \in DOMAIN g.attrs |-> CsvCell(g.attrs[k][i])])]]

\* create_citation_graph_from_csv: can the row be read without an exception?
RowReadable(row) ==
    /\ "pub" \in DOMAIN row
    /\ "references" \in DOMAIN row
    /\ IsIntText(row["pub"])
    /\ \A j \in DOMAIN row["references"] : IsIntText(row["references"][j])
    /\ \A k \in DOMAIN row \ {"pub", "references"} :
          /\ k \in IntColumns => IsIntText(row[k])
          /\ k \in JsonColumns => IsJsonText(row[k])

\* the value appended to nodeAttributes[k] for the cell text
DecodeCell(k, text) ==
    IF k \in IntColumns THEN [t |-> "int", v |-> text]
    ELSE IF k \in JsonColumns THEN JsonLoads(text)
    ELSE PyStr(text)

\* int(text)
ParseInt(text) == CHOOSE k \in IntValues : ToString(k) = text

RECURSIVE RowEdges(_, _)
RowEdges(rows, p) ==
    IF p > Len(rows) THEN <<>>
    ELSE [j \in DOMAIN rows[p]["references"] |->
             <<ParseInt(rows[p]["pub"]), ParseInt(rows[p]["references"][j])>>]
         \o RowEdges(rows, p + 1)

\* create_citation_graph_from_csv on a file all of whose rows are readable
Decode(file) ==
    LET rows == file.rows
        nodes == {ParseInt(rows[i]["pub"]) : i \in DOMAIN rows}
        columns == IF rows = <<>> THEN {}
                   ELSE DOMAIN rows[1] \ {"pub", "references"}
    IN IgGraph(Cardinality(nodes), RowEdges(rows, 1),
               [k \in columns |->
                   [i \in DOMAIN rows |-> DecodeCell(k, rows[i][k])]])

\* save_citation_graph_to_csv(csv_handle, graph)
SaveCsv ==
    /\ UNCHANGED notGraph
    /\ gPc = "built"
    /\ csvFile' = Encode(graph)
    /\ gPc' = "saved"
    /\ UNCHANGED <<consumed, nodeAttributes, nodeReferences, oaIntID2Index,
                   index2oaIntID, graph, decoded>>

\* create_citation_graph_from_csv(csv_handler) on the file written
LoadCsv ==
    /\ UNCHANGED notGraph
    /\ gPc = "saved"
    /\ IF \A i \in DOMAIN csvFile.rows : RowReadable(csvFile.rows[i])
         THEN decoded' = Decode(csvFile) /\ gPc' = "loaded"
         ELSE decoded' = NoGraph /\ gPc' = "loadRaised"
    /\ UNCHANGED <<consumed, nodeAttributes, nodeReferences, oaIntID2Index,
                   index2oaIntID, graph, csvFile>>

\* the files of another origin handed to create_citation_graph_from_csv: a
\* header with or without the columns "pub" and "references", and `count`
\* data rows of the header's columns
CsvHeaders ==
    {<<"pub", "references", "title">>, <<"references", "title">>,
     <<"pub", "title">>, <<"title">>}
CsvFileOf(header, count) ==
    [header |-> header,
     rows |-> [i \in 1..count |->
         [k \in Range(header) |->
             CASE k = "pub" -> ToString(i - 1)
               [] k = "references" -> <<>>
               [] OTHER -> "A"]]]
\* a file of two nodes, node 1 citing node 0, with its rows in the order of
\* the "pub" values given
CsvFileInOrder(order) ==
    [header |-> <<"pub", "references", "title">>,
     rows |-> [i \in DOMAIN order |->
         [pub |-> ToString(order[i]),
          references |-> IF order[i] = 1 THEN <<"0">> ELSE <<>>,
          title |-> "T" \o ToString(order[i])]]]
CsvFiles ==
    {CsvFileOf(h, c) : h \in CsvHeaders, c \in 0..MaxRecords}
    \cup {CsvFileInOrder(<<0, 1>>), CsvFileInOrder(<<1, 0>>)}

\* create_citation_graph_from_csv(csv_handler) on a file of another origin
LoadCsvFile(file) ==
    /\ UNCHANGED notGraph
    /\ gPc = "idle"
    /\ csvFile' = file
    /\ IF \A i \in DOMAIN file.rows : RowReadable(file.rows[i])
         THEN decoded' = Decode(file) /\ gPc' = "fileLoaded"
         ELSE decoded' = NoGraph /\ gPc' = "fileLoadRaised"
    /\ UNCHANGED <<consumed, nodeAttributes, nodeReferences, oaIntID2Index,
                   index2oaIntID, graph>>

NextGraph ==
    \/ \E work \in Works : ConsumeWork(work)
    \/ BuildGraph
    \/ SaveCsv
    \/ LoadCsv
    \/ \E file \in CsvFiles : LoadCsvFile(file)

(***************************************************************************)
(* Part 4.  The bounded BFS traversal                                      *)
(* traverse(seedIds, maxDepth, maxNodes), as section 4.3 of the design     *)
(* describes it.  The single-work fetch is one step with one of three      *)
(* outcomes.                                                               *)
(***************************************************************************)
\* the external identifiers of the citation graphs of the model
BfsIds == 1..(MaxWorkId + 1)
LastId == MaxWorkId + 1

\* citation graphs: a ring, every work citing the last one (for two seeds
\* a diamond), works citing themselves and the first work twice, a chain
\* with shortcuts
CitationGraphs ==
    {[i \in BfsIds |-> <<(i % LastId) + 1>>],
     [i \in BfsIds |-> IF i < LastId THEN <<LastId>> ELSE <<>>],
     [i \in BfsIds |-> <<i, 1, 1>>],
     [i \in BfsIds |-> IF i + 1 < LastId THEN <<i + 1, i + 2>>
                       ELSE IF i < LastId THEN <<i + 1, 1>> ELSE <<1>>]}

\* seed lists
SeedLists == {<<>>, <<1>>, <<1, 2>>, <<LastId>>}

\* outcomes of the fetch of one work: the record, absent, or a record
\* without its citation list
FetchOutcomes == {"record", "absent", "noCitationList"}

\* "for each cited external identifier not already visited, mark it visited
\* and enqueue": the identifiers of refs that get enqueued, in order
\* (variant: no test of the visited set)
NewlyCitedUnchecked(refs, seen) == refs
RECURSIVE NewlyCited(_, _)
NewlyCited(refs, seen) ==
    IF refs = <<>> THEN <<>>
    ELSE IF Head(refs) \in seen THEN NewlyCited(Tail(refs), seen)
    ELSE <<Head(refs)>> \o NewlyCited(Tail(refs), seen \cup {Head(refs)})

\* "if the dequeued item's depth is >= maxDepth, skip it"
\* (variant: depth > maxDepth)
DepthReachedStrict(depth, limit) == depth > limit
DepthReached(depth, limit) == depth >= limit

\* "if the configured node-processedNodes budget is already met"
\* (variant: the budget counts as met one node later)
BudgetMetLate(count, budget) == count > budget
BudgetMet(count, budget) == count >= budget

AtDepth(ids, depth) == [i \in DOMAIN ids |-> [id |-> ids[i], depth |-> depth]]

InitTraversal ==
    /\ bfsPc = "idle"
    /\ cites = [i \in BfsIds |-> <<>>]
    /\ maxDepth = 0
    /\ maxNodes = 0
    /\ queue = <<>>
    /\ visited = {}
    /\ processedNodes = 0
    /\ enqueued = <<>>
    /\ fetched = <<>>
    /\ bfsYielded = <<>>

\* traverse(seedIds, maxDepth, maxNodes) up to its loop: every seed is
\* enqueued at depth 0 and marked visited
Traverse(seedIds, depth, nodes, graphOfCitations) ==
    /\ UNCHANGED notTraversal
    /\ bfsPc = "idle"
    /\ cites' = graphOfCitations
    /\ maxDepth' = depth
    /\ maxNodes' = nodes
    /\ queue' = AtDepth(seedIds, 0)
    /\ visited' = Range(seedIds)
    /\ enqueued' = AtDepth(seedIds, 0)
    /\ processedNodes' = 0
    /\ fetched' = <<>>
    /\ bfsYielded' = <<>>
    /\ bfsPc' = "running"

\* the loop ends: the queue is empty or the node budget is met
TraverseEnd ==
    /\ UNCHANGED notTraversal
    /\ bfsPc = "running"
    /\ queue = <<>> \/ BudgetMet(processedNodes, maxNodes)
    /\ bfsPc' = "done"
    /\ UNCHANGED <<cites, maxDepth, maxNodes, queue, visited, processedNodes,
                   enqueued, fetched, bfsYielded>>

\* an item at depth >= maxDepth is dequeued and skipped
TraverseSkip ==
    /\ UNCHANGED notTraversal
    /\ bfsPc = "running"
    /\ queue # <<>> /\ ~BudgetMet(processedNodes, maxNodes)
    /\ DepthReached(Head(queue).depth, maxDepth)
    /\ queue' = Tail(queue)
    /\ UNCHANGED <<bfsPc, cites, maxDepth, maxNodes, visited, processedNodes,
                   enqueued, fetched, bfsYielded>>

\* an item at depth < maxDepth is dequeued and its work fetched
TraverseFetch(outcome) ==
    /\ UNCHANGED notTraversal
    /\ bfsPc = "running"
    /\ queue # <<>> /\ ~BudgetMet(processedNodes, maxNodes)
    /\ ~DepthReached(Head(queue).depth, maxDepth)
    /\ fetched' = Append(fetched, Head(queue))
    /\ IF outcome = "record"
         THEN LET new == AtDepth(NewlyCited(cites[Head(queue).id], visited),
                                 Head(queue).depth + 1)
              IN /\ processedNodes' = processedNodes + 1
                 /\ bfsYielded' = Append(bfsYielded, Head(queue))
                 /\ queue' = Tail(queue) \o new
                 /\ visited' = visited \cup {new[i].id : i \in DOMAIN new}
                 /\ enqueued' = enqueued \o new
         ELSE /\ queue' = Tail(queue)
              /\ UNCHANGED <<processedNodes, bfsYielded, visited, enqueued>>
    /\ UNCHANGED <<bfsPc, cites, maxDepth, maxNodes>>

NextTraversal ==
    \/ \E seedIds \in SeedLists, depth \in 0..MaxDepth, nodes \in 0..MaxNodes,
          graphOfCitations \in CitationGraphs :
           Traverse(seedIds, depth, nodes, graphOfCitations)
    \/ TraverseEnd
    \/ TraverseSkip
    \/ \E outcome \in FetchOutcomes : TraverseFetch(outcome)

(***************************************************************************)
(* Specifications: one per top-level operation.                            *)
(***************************************************************************)
Init == InitRequest /\ InitRetrieval /\ InitGraph /\ InitTraversal

SpecRequest == Init /\ [][NextRequest]_vars

SpecOAAPI == Init /\ [][NextOAAPI]_vars

SpecRetrieval == Init /\ [][NextRetrieval]_vars

SpecGraph == Init /\ [][NextGraph]_vars

SpecTraversal == Init /\ [][NextTraversal]_vars

\* the traversal is run to its end by its consumer
SpecTraversalFair == SpecTraversal /\ WF_vars(NextTraversal)

\* the whole program: the operations work on separate state
Next == NextOAAPI \/ NextRetrieval \/ NextGraph \/ NextTraversal

Spec == Init /\ [][Next]_vars

(***************************************************************************)
(* Claims about the raw request executor.                                  *)
(***************************************************************************)
BackoffSleeps == [i \in 1..Len(SelectKind(sleeps, "backoff")) |->
                      SelectKind(sleeps, "backoff")[i].secs]
RateSleeps == SelectKind(sleeps, "rate")

Is429(o) == ~o.exc /\ o.status = 429
IsDecoded200(o) == ~o.exc /\ o.status = 200 /\ o.decodes
\* neither 200, 429 nor >= 500, or a 200 whose body fails to decode
IsNonTransient(o) ==
    /\ ~o.exc
    /\ \/ o.status \notin {200, 429} /\ o.status < 500
       \/ o.status = 200 /\ ~o.decodes
IsRetryableFailure(o) == o.exc \/ o.status = 429 \/ o.status >= 500

\* C1: while every attempt so far answered 429, the backoff sleeps are
\* b, 2b, 4b, ... (b the initial backoff), one per GET; when the call has
\* returned after only 429s it issued exactly `retries` GETs and returned None.
C1_BackoffDoubles ==
    (reqPc # "idle" /\ \A i \in 1..Len(gets) : Is429(gets[i])) =>
        /\ BackoffSleeps = [i \in 1..Len(gets) |-> backoffArg * Pow2(i - 1)]
        /\ reqPc = "returned" =>
              /\ Len(gets) = retries
              /\ result = "None"

\* three 429s with the defaults backoff = 2, retries = 3: sleeps 2, 4, 8
C1_Witness ==
    /\ reqPc = "returned"
    /\ retries = 3
    /\ backoffArg = 2
    /\ Len(gets) = 3
    /\ \A i \in 1..3 : Is429(gets[i])
    /\ BackoffSleeps = <<2, 4, 8>>
    /\ result = "None"

\* C2: a non-transient outcome (a status that is neither 200, 429 nor >= 500,
\* or an undecodable 200) is the last GET of its call: the error kind is
\* recorded, no backoff sleep follows it and the call has returned None.
C2_NonTransientNotRetried ==
    \A i \in 1..Len(gets) :
        IsNonTransient(gets[i]) =>
            /\ i = Len(gets)
            /\ reqPc = "returned"
            /\ result = "None"
            /\ Len(BackoffSleeps) = i - 1
            /\ errorCount[ErrorKindOf(gets[i])] >= 1

\* a 404 on the first attempt: one GET, no sleep, None
C2_Witness ==
    /\ reqPc = "returned"
    /\ retries = 3
    /\ Len(gets) = 1
    /\ gets[1].status = 404
    /\ sleeps = <<>>
    /\ result = "None"
    /\ errorCount["404"] = 1

\* C3: a call issues at most `retries` GETs and ends by returning the parsed
\* body of a 200 response or None; it returns the body exactly when its last
\* GET was a decodable 200, and when all `retries` attempts were retryable
\* failures it returns None after exactly `retries` GETs.
C3_BoundedAttempts ==
    /\ Len(gets) <= retries
    /\ reqPc = "loop" => (result = "pending" /\ Len(gets) < retries)
    /\ reqPc = "returned" =>
          /\ result \in {"body", "None"}
          /\ result = "body" <=>
                (Len(gets) >= 1 /\ IsDecoded200(gets[Len(gets)]))
          /\ (\A i \in 1..Len(gets) : IsRetryableFailure(gets[i])) =>
                (Len(gets) = retries /\ result = "None")

\* a mixed run of retryable failures (exception, 5xx, 429) exhausting 3 retries
C3_Witness ==
    /\ reqPc = "returned"
    /\ retries = 3
    /\ Len(gets) = 3
    /\ gets[1].exc
    /\ gets[2].status = 503
    /\ gets[3].status = 429
    /\ result = "None"

\* C4 as stated: with rateInterval > 0 a call that made k GETs slept
\* rateInterval k times.
C4_RateSleepPerAttempt ==
    (reqPc = "returned" /\ rateInterval > 0) => Len(RateSleeps) = Len(gets)

\* C4 as amended: with rateInterval > 0 a call sleeps rateInterval exactly
\* once, before its first GET, however many attempts it makes; the retries
\* are separated by the backoff sleeps only.
C4_RateSleepOncePerCall ==
    reqPc # "idle" =>
        /\ rateInterval > 0 =>
              /\ Len(RateSleeps) = 1
              /\ sleeps[1] = [kind |-> "rate", secs |-> rateInterval]
        /\ rateInterval = 0 => Len(RateSleeps) = 0

\* three attempts with rateInterval > 0
C4_Witness ==
    /\ reqPc = "returned"
    /\ rateInterval > 0
    /\ Len(gets) = 3
    /\ Len(RateSleeps) = 1
    /\ Len(BackoffSleeps) = 3

\* the number of 429 responses among the first k GETs of the call
Count429(k) == Cardinality({i \in 1..k : Is429(gets[i])})

\* C16: the k-th backoff sleep of a call, taken after its k-th GET, lasts the
\* initial backoff times 2 to the number of 429 responses among the GETs
\* before the k-th: a 429 doubles the backoff for the sleeps after it, a
\* response >= 500 and a transport exception leave it as it is.
C16_Only429Doubles ==
    reqPc # "idle" =>
        /\ \A k \in 1..Len(BackoffSleeps) :
              BackoffSleeps[k] = backoffArg * Pow2(Count429(k - 1))
        /\ backoff = backoffArg * Pow2(Count429(Len(BackoffSleeps)))

\* 503, 429, exception from backoff 2: the sleeps are 2, 2, 4
C16_Witness ==
    /\ reqPc = "returned"
    /\ backoffArg = 2
    /\ Len(gets) = 3
    /\ ~gets[1].exc /\ gets[1].status = 503
    /\ Is429(gets[2])
    /\ gets[3].exc
    /\ BackoffSleeps = <<2, 2, 4>>

profile == <<apiTime, apiCalls, errorCount>>

\* C23 as stated: the profile changes only in a step of _makeOARawRequest
\* (a step that issues a GET).
C23_OnlyExecutorMutates ==
    [][profile' # profile => gets' # gets]_vars

\* C23 as amended: total call time and call count change only in a step of
\* _makeOARawRequest; the per-error-kind counts change there and in the
\* response validation of makeOAAPICall, which, when it raises for a body
\* that lacks "meta" or carries "error", adds one to the counts of
\* "NA_Meta_in_response" and of the error value and to nothing else, and
\* raises for an absent response without a change; makeOASingleWorksCall
\* changes nothing.
C23_ExecutorAndValidationMutate ==
    [][/\ <<apiTime, apiCalls>>' # <<apiTime, apiCalls>> => gets' # gets
       /\ (errorCount' # errorCount /\ gets' = gets) =>
             /\ callPc = "none" /\ callPc' = "raised"
             /\ result = "body"
             /\ \A k \in ErrorKinds :
                   IF k \in {"NA_Meta_in_response", "Invalid"}
                     THEN errorCount'[k] \in
                              {errorCount[k], errorCount[k] + 1}
                     ELSE errorCount'[k] = errorCount[k]]_vars

\* a decoded 200 whose body lacks "meta": the executor counted the call, the
\* validation counted the error
C23_Witness ==
    /\ callPc = "raised"
    /\ result = "body"
    /\ apiCalls = 1
    /\ errorCount["NA_Meta_in_response"] = 1
    /\ errorCount["Invalid"] = 0

(***************************************************************************)
(* Claims about getEntities and the iterators.                             *)
(***************************************************************************)
\* every answer of the iteration so far was the true page of a catalog of
\* metaCount works
EveryPageTrue ==
    \A i \in 1..Len(requests) :
        /\ requests[i].ok
        /\ requests[i].results =
               CatalogPageSize(metaCount, requests[i].per_page, requests[i].page)

\* C5: the iterator getEntities returns is chosen by the capped count alone:
\* the count is capped to maxEntities when it exceeds it and maxEntities >= 0,
\* the offset iterator is chosen when the capped count is <= 10000 and the
\* cursor iterator otherwise, and the choice stays as it is for the whole
\* retrieval.
C5_StrategyByCappedCount ==
    viaGetEntities =>
        LET capped == IF maxEntities >= 0 /\ metaCount > maxEntities
                        THEN maxEntities ELSE metaCount
        IN /\ totalEntries = capped
           /\ capped <= 10000 => strategy = "offset"
           /\ capped > 10000 => strategy = "cursor"

\* a count of 10001 capped to maxEntities = 10000 is served by offset paging,
\* and the retrieval has run
C5_Witness ==
    /\ viaGetEntities
    /\ metaCount = 10001
    /\ maxEntities = 10000
    /\ totalEntries = 10000
    /\ strategy = "offset"
    /\ Len(requests) >= 2

\* C6: an offset iterator returned by getEntities with maxEntities >= 0 never
\* yields more than min(T, maxEntities) records, yields them in page order and
\* left to right within a page, and when it is consumed to its end against a
\* server that answers every page with the catalog's entries it has yielded
\* exactly min(T, maxEntities) records.
C6_OffsetYieldsCappedCount ==
    (viaGetEntities /\ strategy = "offset" /\ maxEntities >= 0) =>
        /\ Len(yielded) <= Min(metaCount, maxEntities)
        /\ \A i \in 1..Len(yielded), j \in 1..Len(yielded) :
              i < j => \/ yielded[i][1] < yielded[j][1]
                       \/ /\ yielded[i][1] = yielded[j][1]
                          /\ yielded[i][2] < yielded[j][2]
        /\ (itPc = "done" /\ EveryPageTrue) =>
              /\ Len(yielded) = Min(metaCount, maxEntities)
              /\ \A i \in 1..Len(yielded) :
                    yielded[i] = <<((i - 1) \div totalEntriesPerPage) + 1,
                                   ((i - 1) % totalEntriesPerPage) + 1>>

\* T = 10001 works capped to 3 with pages of 2: the second page is full and
\* only its first entry is consumed
C6_Witness ==
    /\ viaGetEntities
    /\ strategy = "offset"
    /\ itPc = "done"
    /\ metaCount = 10001
    /\ maxEntities = 3
    /\ totalEntriesPerPage = 2
    /\ EveryPageTrue
    /\ yielded = <<<<1, 1>>, <<1, 2>>, <<2, 1>>>>

\* C7: one iteration of the cursor iterator yields at most T records; a
\* response without a non-empty next_cursor, or one holding a record that
\* would take the yielded count beyond T, is the last request of the
\* iteration.
C7_CursorStops ==
    strategy = "cursor" =>
        /\ Len(yielded) <= totalEntries
        /\ \A i \in 1..Len(requests) :
              (/\ requests[i].ok
               /\ \/ requests[i].next_cursor \in {"missing", ""}
                  \/ requests[i].yieldedBefore + requests[i].results
                         > totalEntries)
              => (i = Len(requests) /\ itPc = "done")

\* the first iteration stops at T = 3 in its second response, which still
\* carries a cursor
C7_Witness ==
    /\ strategy = "cursor"
    /\ iterations = 1
    /\ itPc = "done"
    /\ totalEntries = 3
    /\ Len(requests) = 2
    /\ requests[2].next_cursor = "c2"
    /\ requests[2].results = 2
    /\ Len(yielded) = 3

\* the top-level response lacks "meta", carries "error" or is absent
IsMalformed(resp) == resp.absent \/ ~resp.meta \/ resp.error

\* C12: a request of an iteration whose response is absent, lacks "meta" or
\* carries "error" is the last request of that iteration: makeOAAPICall
\* raised, nothing was yielded from that response or after it, and the
\* records yielded from the earlier responses are still the records yielded.
C12_MalformedResponseAborts ==
    \A i \in 1..Len(requests) :
        IsMalformed(requests[i].resp) =>
            /\ i = Len(requests)
            /\ itPc = "raised"
            /\ ~requests[i].ok
            /\ Len(yielded) = requests[i].yieldedBefore
            /\ \A j \in 1..Len(yielded) : yielded[j][1] < i

\* an offset retrieval whose first page came through and whose second
\* response lacks "meta"
C12_Witness ==
    /\ strategy = "offset"
    /\ itPc = "raised"
    /\ Len(requests) = 2
    /\ ~requests[2].resp.absent
    /\ ~requests[2].resp.meta
    /\ yielded = <<<<1, 1>>, <<1, 2>>>>

\* C18: the offset iterator requests the pages 1, 2, ... in this order, each
\* with per_page = P (and is answered with at most P records); it issues at most ceil(T / P) requests, none when T = 0,
\* and exactly ceil(T / P) when it has run to its end with every page holding
\* its full complement of records; no page is requested once T records have
\* been yielded.
C18_PagesInOrder ==
    strategy = "offset" =>
        LET T == totalEntries
            P == totalEntriesPerPage
            pages == (T + P - 1) \div P
            Complement(i) == IF T - (i - 1) * P < P THEN T - (i - 1) * P ELSE P
        IN /\ \A i \in 1..Len(requests) :
                 /\ requests[i].page = i
                 /\ requests[i].per_page = P
                 /\ requests[i].yieldedBefore < T
           /\ Len(requests) <= pages
           /\ T = 0 => requests = <<>>
           /\ (/\ itPc = "done"
               /\ \A i \in 1..Len(requests) :
                     requests[i].ok /\ requests[i].results >= Complement(i))
              => Len(requests) = pages

\* T = 3 and P = 2: page 1 then page 2, and the iteration is over
C18_Witness ==
    /\ strategy = "offset"
    /\ itPc = "done"
    /\ totalEntries = 3
    /\ totalEntriesPerPage = 2
    /\ Len(requests) = 2
    /\ requests[1].page = 1 /\ requests[1].results = 2
    /\ requests[2].page = 2 /\ requests[2].results = 1
    /\ Len(yielded) = 3

\* C19: in every iteration of the cursor iterator the first request carries
\* the cursor "*" and each later request carries the next_cursor of the
\* response just before it.
C19_CursorChain ==
    strategy = "cursor" =>
        \A i \in 1..Len(requests) :
            requests[i].cursor =
                IF i = 1 THEN "*" ELSE requests[i - 1].next_cursor

\* C25: every iteration of a retrieval object, the second like the first,
\* starts the retrieval from its beginning: ahead of its first request the
\* offset iterator is at page 1 and the cursor iterator at the cursor "*",
\* and the counter of the records yielded is 0; so a server that answers as
\* before is sent the same requests and the same records are yielded.
C25_ReiterationRestarts ==
    (itPc = "running" /\ requests = <<>>) =>
        /\ processedEntries = 0
        /\ strategy = "offset" => page = 1
        /\ strategy = "cursor" => cursor = "*"

\* what an iteration has left to do before its loop must end: the pages not
\* yet requested (offset), the records not yet counted toward T (cursor)
RemainingWork ==
    IF strategy = "offset" THEN totalPages + 1 - page
    ELSE totalEntries + 1 - processedEntries

\* C17: an iteration ends after finitely many requests, whatever well-formed
\* responses the server sends: every request after which the loop goes on
\* has used up some of the work left (a page of 1..totalPages, or at least one
\* record counted toward T), so the loop cannot go round for ever; and an
\* iteration answered with well-formed responses only does not raise.
C17_IterationEnds ==
    /\ [][(/\ itPc = "running" /\ itPc' = "running"
           /\ Len(requests') = Len(requests) + 1)
          => (RemainingWork' < RemainingWork /\ RemainingWork' >= 0)]_vars
    /\ [](itPc = "raised" =>
              (requests = <<>> \/ IsMalformed(requests[Len(requests)].resp)))

(***************************************************************************)
(* Claims about the assembly of the graph and the CSV codec.               *)
(***************************************************************************)
\* the identifier of the i-th work consumed (i from 1) and the list it cites
IdOf(i) == getIntegerIDFromOpenAlex(consumed[i]["id"].v)
CitedBy(i) ==
    {getIntegerIDFromOpenAlex(consumed[i]["referenced_works"][j]) :
        j \in DOMAIN consumed[i]["referenced_works"]}
NoDuplicateIds ==
    \A i \in DOMAIN consumed, j \in DOMAIN consumed : i # j => IdOf(i) # IdOf(j)

\* C8: for a stream without duplicate identifiers the graph has one node per
\* work, its edges are exactly the pairs (i, j) such that work i cites the
\* identifier of work j, before or after it in the stream, and so every
\* endpoint is an index in 0..N-1 and a cited identifier that is not in the
\* stream gives no edge and no node.
C8_EdgesAmongRetrieved ==
    (gPc = "built" /\ NoDuplicateIds) =>
        /\ graph.n = Len(consumed)
        /\ \A e \in Range(graph.edges) :
              e[1] \in 0..(graph.n - 1) /\ e[2] \in 0..(graph.n - 1)
        /\ \A i \in 0..(Len(consumed) - 1), j \in 0..(Len(consumed) - 1) :
              <<i, j>> \in Range(graph.edges) <=> IdOf(j + 1) \in CitedBy(i + 1)

\* [{id: 1, refs: [2]}, {id: 2, refs: [unseen]}]: two nodes, the one edge 0 -> 1
C8_Witness ==
    /\ gPc = "built"
    /\ Len(consumed) = 2
    /\ IdOf(1) = 1
    /\ consumed[1]["referenced_works"] = <<OpenAlexId(2)>>
    /\ IdOf(2) = 2
    /\ consumed[2]["referenced_works"] = <<OpenAlexId(UnseenId)>>
    /\ graph.n = 2
    /\ graph.edges = <<<<0, 1>>>>

\* C9: after each work consumed (of a stream without duplicate identifiers)
\* every list of nodeAttributes is as long as the number N of works consumed,
\* and its position i holds the value of the attribute for node i: the
\* projected value when the work carries the attribute, an empty marker
\* (None) when it does not.
C9_AttributeListsAligned ==
    (gPc = "consuming" /\ NoDuplicateIds) =>
        \A k \in DOMAIN nodeAttributes :
            /\ Len(nodeAttributes[k]) = Len(consumed)
            /\ \A i \in DOMAIN consumed :
                  nodeAttributes[k][i] =
                      IF k \in DOMAIN consumed[i]
                        THEN processPublicationAttributes(
                                 consumed[i], AttributesToKeep)[k]
                        ELSE PyNone

\* C10: decoding the file written for an assembled graph succeeds and gives a
\* graph with the same number of nodes, the same edges and the same value of
\* every attribute at every node.
C10_CsvRoundTrip ==
    gPc \in {"loaded", "loadRaised"} =>
        /\ gPc = "loaded"
        /\ decoded.n = graph.n
        /\ Range(decoded.edges) = Range(graph.edges)
        /\ DOMAIN decoded.attrs = DOMAIN graph.attrs
        /\ \A k \in DOMAIN graph.attrs : decoded.attrs[k] = graph.attrs[k]

\* C20: the k-th work consumed (k from 0) is node k: the index-to-identifier
\* list holds the identifiers in stream order, the nodes after N works are
\* 0..N-1, and for a stream without duplicate identifiers the map from
\* identifier to index and that list are inverse to each other, so that no
\* two identifiers share an index.
C20_DenseIndices ==
    /\ Len(index2oaIntID) = Len(consumed)
    /\ \A k \in 0..(Len(consumed) - 1) : index2oaIntID[k + 1] = IdOf(k + 1)
    /\ gPc \in {"built", "saved", "loaded", "loadRaised"} =>
           graph.n = Len(consumed)
    /\ NoDuplicateIds =>
           /\ DOMAIN oaIntID2Index = Range(index2oaIntID)
           /\ \A k \in 0..(Len(consumed) - 1) :
                 oaIntID2Index[index2oaIntID[k + 1]] = k
           /\ \A a \in DOMAIN oaIntID2Index, b \in DOMAIN oaIntID2Index :
                 oaIntID2Index[a] = oaIntID2Index[b] => a = b

\* the works W2 and W1, in this order, are the nodes 0 and 1
C20_Witness ==
    /\ gPc = "built"
    /\ index2oaIntID = <<2, 1>>
    /\ DOMAIN oaIntID2Index = {1, 2}
    /\ oaIntID2Index[2] = 0
    /\ oaIntID2Index[1] = 1
    /\ graph.n = 2

\* the position (from 1) of the last work consumed that carries identifier id
LastOccurrence(id) ==
    SetMax({i \in DOMAIN consumed : IdOf(i) = id})

\* C21: a stream in which an identifier occurs twice is assembled without a
\* failure: the identifier maps to the index of its last occurrence, every
\* citation of it is an edge to that index, and every endpoint of an edge is
\* one of the nodes 0..N-1 of the graph.
C21_DuplicateOverwrites ==
    (gPc = "built" /\ ~NoDuplicateIds) =>
        /\ graph.n = Len(consumed)
        /\ \A id \in DOMAIN oaIntID2Index :
              oaIntID2Index[id] = LastOccurrence(id) - 1
        /\ \A e \in Range(graph.edges) :
              e[1] \in 0..(graph.n - 1) /\ e[2] \in 0..(graph.n - 1)
        /\ \A i \in DOMAIN consumed, j \in 0..(Len(consumed) - 1) :
              <<i - 1, j>> \in Range(graph.edges) <=>
                  \E id \in CitedBy(i) :
                      /\ id \in {IdOf(k) : k \in DOMAIN consumed}
                      /\ j = LastOccurrence(id) - 1

\* W2 twice, the first citing W2: the one edge goes from node 0 to node 1
C21_Witness ==
    /\ gPc = "built"
    /\ Len(consumed) = 2
    /\ IdOf(1) = 2 /\ IdOf(2) = 2
    /\ consumed[1]["referenced_works"] = <<OpenAlexId(2)>>
    /\ consumed[2]["referenced_works"] = <<>>
    /\ oaIntID2Index[2] = 1
    /\ graph.edges = <<<<0, 1>>>>

\* the node (from 0) of the first row of the file whose "pub" cell is text
FirstAppearance(text) ==
    SetMax({0}
           \cup {i \in DOMAIN csvFile.rows :
                   /\ csvFile.rows[i]["pub"] = text
                   /\ \A j \in 1..(i - 1) : csvFile.rows[j]["pub"] # text}) - 1

\* C22: in the graph decoded from a file with distinct "pub" cells the row of
\* the k-th identifier in row order is node k: the attribute values of the
\* row are the values of node k, and the edges are exactly the pairs of the
\* node of a row and the node of an identifier in its "references" cell.
C22_FirstAppearanceIndices ==
    gPc = "fileLoaded" =>
        LET rows == csvFile.rows
        IN /\ decoded.n = Len(rows)
           /\ \A i \in DOMAIN rows :
                 \A k \in DOMAIN rows[i] \ {"pub", "references"} :
                     decoded.attrs[k][FirstAppearance(rows[i]["pub"]) + 1]
                         = DecodeCell(k, rows[i][k])
           /\ Range(decoded.edges) =
                 UNION {{<<FirstAppearance(rows[i]["pub"]),
                           FirstAppearance(rows[i]["references"][j])>> :
                             j \in DOMAIN rows[i]["references"]} :
                        i \in DOMAIN rows}

\* C24: a work of the stream that lacks "referenced_works" does not end the
\* assembly: it is skipped, the works after it are still consumed, and the
\* graph built has one node for each work that carries the field.
C24_MissingFieldSkipped ==
    /\ gPc # "raised"
    /\ gPc = "built" =>
           graph.n = Cardinality({i \in DOMAIN consumed :
                                     "referenced_works" \in DOMAIN consumed[i]})

\* C11: decoding a file whose header lacks the column "pub" or the column
\* "references" raises and returns no graph, whatever the number of data rows
\* of the file, zero included.
C11_MissingColumnsRaise ==
    (/\ gPc \in {"fileLoaded", "fileLoadRaised"}
     /\ ~({"pub", "references"} \subseteq Range(csvFile.header)))
    => gPc = "fileLoadRaised"

(***************************************************************************)
(* Claims about the bounded BFS traversal.                                 *)
(***************************************************************************)
\* no identifier occurs twice among the [id, depth] entries of log
NoRepeatedId(log) ==
    \A i \in DOMAIN log, j \in DOMAIN log : i # j => log[i].id # log[j].id

\* C13: in one traversal no identifier is put on the queue more than once,
\* whatever the citation graph (ring, self-citation, repeated citation, seed
\* cited by another work); so no work is fetched or yielded more than once.
C13_EnqueuedOnce ==
    /\ NoRepeatedId(enqueued)
    /\ NoRepeatedId(queue)
    /\ NoRepeatedId(fetched)
    /\ NoRepeatedId(bfsYielded)
    /\ visited = {enqueued[i].id : i \in DOMAIN enqueued}

\* the diamond: the seeds 1 and 2 both cite the last work, which is enqueued,
\* fetched and yielded once
C13_Witness ==
    /\ bfsPc = "done"
    /\ cites[1] = <<LastId>>
    /\ cites[2] = <<LastId>>
    /\ [i \in DOMAIN enqueued |-> enqueued[i].id] = <<1, 2, LastId>>
    /\ [i \in DOMAIN bfsYielded |-> bfsYielded[i].id] = <<1, 2, LastId>>

\* C14: a work is fetched, yielded or counted only from a queue item of depth
\* < maxDepth: every fetch and every yielded record has depth < maxDepth, the
\* counter counts the yielded records only, and with maxDepth = 0 nothing is
\* fetched and nothing is yielded.
C14_DepthBound ==
    /\ \A i \in DOMAIN fetched : fetched[i].depth < maxDepth
    /\ \A i \in DOMAIN bfsYielded : bfsYielded[i].depth < maxDepth
    /\ processedNodes = Len(bfsYielded)
    /\ (bfsPc # "idle" /\ maxDepth = 0) =>
           (fetched = <<>> /\ bfsYielded = <<>>)

\* maxDepth = 0 with two seeds: both are dequeued and skipped, the traversal
\* ends without a fetch
C14_Witness ==
    /\ bfsPc = "done"
    /\ maxDepth = 0
    /\ maxNodes > 0
    /\ Len(enqueued) = 2
    /\ queue = <<>>
    /\ fetched = <<>>
    /\ bfsYielded = <<>>

\* C15: a traversal that has started ends; it never yields more than maxNodes
\* records; once the counter has reached maxNodes nothing more is dequeued or
\* fetched; and when it ends below the budget the queue is empty.
C15_Terminates ==
    /\ [](bfsPc # "idle" => Len(bfsYielded) <= maxNodes)
    /\ [][(bfsPc = "running" /\ processedNodes >= maxNodes) =>
              (queue' = queue /\ fetched' = fetched)]_vars
    /\ []((bfsPc = "done" /\ processedNodes < maxNodes) => queue = <<>>)
    /\ (bfsPc = "running" ~> bfsPc = "done")

\* the budget of two nodes is met on a ring while a work is still queued
C15_Witness ==
    /\ bfsPc = "done"
    /\ maxNodes = 2
    /\ processedNodes = 2
    /\ cites[1] = <<2>>
    /\ queue # <<>>
    /\ Len(fetched) = 2

====
